---- MODULE Spec2Model ----
(***************************************************************************)
(* tap-twitter: the HTTP client wrapper (client.py), the date helpers      *)
(* (helpers.py) and the incremental streams (streams.py) as one state      *)
(* machine.  Execution is single threaded, so one program counter `pc`     *)
(* says which piece of code runs next; the environment gives the HTTP      *)
(* response of each attempt of Client._make_request and the host clock.    *)
(***************************************************************************)
EXTENDS Integers, Sequences, FiniteSets, TLC

VARIABLES
    config,     \* the tap config: start_date, tweet_search_query, hashability
    now,        \* the host clock read by get_bookmark_or_max_date: the
                \* instant, and the UTC offset of the host's local time zone
    state,      \* Sync State: stream id -> bookmark string (NoDate = absent)
    cache,      \* lru_cache of SearchTweets.get_records: cached start_date keys
    pc,         \* where control is
    sync,       \* locals of IncrementalStream.sync
    gen,        \* frame of the SearchTweets.get_records generator
    ugen,       \* frame of the Users.get_records generator
    http,       \* the Client._make_request call in progress
    last,       \* the response of the latest attempt of that call
    ret,        \* the value the call in progress returned
    item,       \* the record just yielded to sync
    exc,        \* the exception raised (propagating, or that ended the sync)
    hist        \* observations of the current sync: requests, pages, records

vars == <<config, now, state, cache, pc, sync, gen, ugen, http, last, ret,
          item, exc, hist>>

----------------------------------------------------------------------------
(* Bounds of the model *)

MaxPages == 1      \* responses carrying a next_token per get_records run
MaxSyncs == 2      \* sync invocations per behaviour
MaxCalls == 2      \* stand-alone client calls per behaviour (SpecClient)

----------------------------------------------------------------------------
(* Dates.  A date string is <<local seconds, utc offset seconds>>; the     *)
(* instant it denotes is local - offset.                                   *)

NoDate == <<>>
T0 == 100
Hour == 60 * 60

strptime_to_utc(s) == s[1] - s[2]
strftime(instant) == <<instant, 0>>
isoformat(instant) == <<instant, 0>>

lookback_days == 7
SecondsPerDay == 24 * Hour
ClampSeconds == 30

\* datetime.utcnow(): a naive datetime holding the UTC wall-clock reading
utcnow(clock) == clock.utc

\* naive.astimezone(pytz.UTC): a naive datetime is taken to be in the host's
\* local time zone, so its instant is the reading minus the local offset
astimezone(naive, clock) == naive - clock.tz

get_bookmark_or_max_date(date, clock) ==
    LET now_utc == astimezone(utcnow(clock), clock)
        max_lookback_date == now_utc - lookback_days * SecondsPerDay
    IN  IF strptime_to_utc(date) < max_lookback_date
        THEN isoformat(max_lookback_date + ClampSeconds)
        ELSE date

date_to_rfc3339(date) == <<strptime_to_utc(date), 0>>

\* mutant: the maximum is overwritten by the latest value
Max_latest(a, b) == a

Max(a, b) == IF a >= b THEN a ELSE b

----------------------------------------------------------------------------
(* Exceptions and the status-code mapping of client.py *)

NoExc == [exc |-> "", message |-> ""]
Exc(type, message) == [exc |-> type, message |-> message]

ERROR_CODE_EXCEPTION_MAPPING(code) ==
    CASE code = 400 -> [raise_exception |-> "TwitterClient400Error", message |-> "Bad Request"]
      [] code = 401 -> [raise_exception |-> "TwitterClient401Error", message |-> "Unauthorized"]
      [] code = 403 -> [raise_exception |-> "TwitterClient403Error", message |-> "Forbidden"]
      [] code = 404 -> [raise_exception |-> "TwitterClient404Error", message |-> "Not Found"]
      [] code = 429 -> [raise_exception |-> "TwitterClient429Error", message |-> "API limit has been reached"]
      [] code = 500 -> [raise_exception |-> "TwitterClient5xxError", message |-> "Internal Server Error"]
      [] code = 503 -> [raise_exception |-> "TwitterClient5xxError", message |-> "Service Unavailable"]
      [] OTHER      -> [raise_exception |-> "TwitterClientError", message |-> "Client Error"]

----------------------------------------------------------------------------
(* Responses.  One record shape for every response: the status, whether    *)
(* the body parses as JSON, and the members of the body the code reads.    *)
(* data_kind / errors_kind say whether the member is absent, null or a     *)
(* list; an error object's absent message is "".                           *)

NoToken == "None"

Resp(status, json, data_kind, data, next_token, errors_kind, errors) ==
    [status |-> status, json |-> json, data_kind |-> data_kind, data |-> data,
     next_token |-> next_token, errors_kind |-> errors_kind, errors |-> errors]

NoResp == Resp(0, FALSE, "absent", <<>>, NoToken, "absent", <<>>)

ErrorObject(title, detail, message) ==
    [title |-> title, detail |-> detail, message |-> message]

ErrorBodies ==
    {[json |-> FALSE, errors_kind |-> "absent", errors |-> <<>>],
     [json |-> TRUE,  errors_kind |-> "absent", errors |-> <<>>],
     [json |-> TRUE,  errors_kind |-> "null",   errors |-> <<>>],
     [json |-> TRUE,  errors_kind |-> "list",   errors |-> <<>>],
     [json |-> TRUE,  errors_kind |-> "list",
      errors |-> <<ErrorObject("X", "Y", "")>>],
     [json |-> TRUE,  errors_kind |-> "list",
      errors |-> <<ErrorObject("X", "Y", "Too Many Requests")>>]}

FailStatuses == {201, 400, 401, 403, 404, 418, 429, 500, 502, 503}

FailResponses ==
    {Resp(s, b.json, "absent", <<>>, NoToken, b.errors_kind, b.errors) :
        s \in FailStatuses, b \in ErrorBodies}

Tweet(id, created_at, author_id) ==
    [id |-> id, created_at |-> created_at, author_id |-> author_id]

r1 == Tweet("1", <<T0 - 1, 0>>, "a")
r2 == Tweet("2", <<T0 + 1 + Hour, Hour>>, "a")
r3 == Tweet("3", <<T0, 0>>, "b")

TweetPages == {<<>>, <<r1, r2>>, <<r3>>}

SearchResponses ==
    {Resp(200, TRUE, "list", d, t, "absent", <<>>) :
        d \in TweetPages, t \in {NoToken, "A"}}
    \cup {Resp(200, TRUE, "absent", <<>>, t, "absent", <<>>) : t \in {NoToken, "A"}}
    \cup {Resp(200, TRUE, k, <<>>, t, "list", <<ErrorObject("X", "Y", "")>>) :
            k \in {"absent", "list"}, t \in {NoToken, "A"}}
    \cup {Resp(200, TRUE, "list", <<r3>>, NoToken, "list", <<ErrorObject("X", "Y", "")>>)}

\* a user object of the lookup response; `updated_at` is NoDate when the
\* object has no member of that name
User(id, name, updated_at) ==
    [id |-> id, name |-> name, updated_at |-> updated_at]

UserPages == {<<>>, <<User("a", "Ann", NoDate), User("b", "Bob", NoDate)>>}

\* user objects that carry an `updated_at` member of their own, before and
\* after the bookmarks
StampedUserPages ==
    {<<User("a", "Ann", <<T0 - 1, 0>>), User("b", "Bob", NoDate)>>,
     <<User("a", "Ann", <<T0 + 1, 0>>)>>}

UserResponses ==
    {Resp(200, TRUE, "list", d, NoToken, "absent", <<>>) : d \in UserPages}
    \cup {Resp(200, TRUE, "absent", <<>>, NoToken, "absent", <<>>)}

----------------------------------------------------------------------------
(* client.py *)

Raise(type, message) ==
    [kind |-> "raise", exc |-> Exc(type, message), none |-> FALSE]
Return(is_none) ==
    [kind |-> "return", exc |-> NoExc, none |-> is_none]

\* requests.Response.raise_for_status raises for 4xx and 5xx only
raise_for_status(resp) == resp.status >= 400 /\ resp.status < 600

raise_for_error(resp) ==
    IF ~raise_for_status(resp) THEN Return(TRUE)
    ELSE LET client_exception == ERROR_CODE_EXCEPTION_MAPPING(resp.status)
         IN  IF ~resp.json THEN Raise("TwitterClientError", "HTTPError")
             ELSE IF resp.errors_kind = "null"
                  THEN Raise("TwitterClientError", "HTTPError")
             ELSE IF resp.errors_kind = "list" /\ resp.errors = <<>>
                  THEN Raise("IndexError", "list index out of range")
             ELSE LET error_message ==
                          IF resp.errors_kind = "absent" THEN ""
                          ELSE resp.errors[1].message
                      message == IF error_message # "" THEN error_message
                                 ELSE client_exception.message
                  IN  Raise(client_exception.raise_exception, message)

\* one attempt: the body of Client._make_request
make_request(resp) ==
    IF resp.status # 200
    THEN IF ~resp.json
         THEN Raise("JSONDecodeError", "Expecting value")
         ELSE raise_for_error(resp)
    ELSE Return(FALSE)

max_tries == 10

\* mutant: the decorator retries on the base class of the client errors
retry_on_base(e) ==
    e.exc \in {"TwitterClientError", "TwitterClient400Error",
               "TwitterClient401Error", "TwitterClient403Error",
               "TwitterClient404Error", "TwitterClient429Error",
               "TwitterClient5xxError"}

\* the exception class backoff.on_exception retries on
retry_on(e) == e.exc = "TwitterClient429Error"

max_value == 300

\* mutant: the wait doubles from one retry to the next
wait_gen_next_doubling(g) ==
    IF g.n <= max_value
    THEN [kind |-> "yield", value |-> g.n, gen |-> [n |-> g.n * 2]]
    ELSE [kind |-> "stop", value |-> 0, gen |-> g]

\* retry_after_wait_gen: the generator frame holds n; next() yields n and
\* resumes at `n += 10`, or ends the generator once n exceeds max_value
wait_gen_next(g) ==
    IF g.n <= max_value
    THEN [kind |-> "yield", value |-> g.n, gen |-> [n |-> g.n + 10]]
    ELSE [kind |-> "stop", value |-> 0, gen |-> g]

\* the generator as the decorator creates it at the start of every call
retry_after_wait_gen == [n |-> 10]

\* a call of the decorated _make_request: the decorator's attempt counter,
\* its wait generator and the time.sleep calls it has made
Call(caller) ==
    [caller |-> caller, tries |-> 0, wait |-> retry_after_wait_gen,
     waits |-> <<>>]

NoCall == Call("")

\* Client.get_recent_tweets: a GET of /2/tweets/search/recent through
\* Client.get, _get and _make_request
get_recent_tweets == Call("search")

\* Client.get_users: the user lookup by id list, a GET through the same
\* request path
get_users == Call("users")

\* One attempt of Client._make_request with the response the server gave,
\* followed by the decision of the backoff decorator.
MakeRequest(resp) ==
    /\ pc = "http"
    /\ LET o == make_request(resp)
           tries == http.tries + 1
           retry == o.kind = "raise" /\ retry_on(o.exc) /\ tries # max_tries
           \* the decorator takes the next wait from the generator and
           \* sleeps; it gives up when the generator has ended
           wait == wait_gen_next(http.wait)
           again == retry /\ wait.kind = "yield"
       IN  /\ last' = resp
           \* the locals of the decorator are gone once the call ends; a
           \* stand-alone caller keeps the attempts and the sleeps it saw
           /\ http' = IF again
                      THEN [http EXCEPT !.tries = tries, !.wait = wait.gen,
                                        !.waits = Append(@, wait.value)]
                      ELSE IF http.caller = "client"
                      THEN [http EXCEPT !.tries = 0]
                      ELSE Call(http.caller)
           /\ hist' = [hist EXCEPT !.attempts =
                          IF ~again /\ http.caller = "client" THEN tries ELSE @]
           /\ IF o.kind = "return"
              THEN /\ pc' = "returned"
                   /\ ret' = [none |-> o.none, body |-> resp]
                   /\ exc' = NoExc
              ELSE /\ ret' = [none |-> TRUE, body |-> NoResp]
                   /\ IF again
                      THEN pc' = "http" /\ exc' = NoExc
                      ELSE pc' = "raised" /\ exc' = o.exc
    /\ UNCHANGED <<config, now, state, cache, sync, gen, ugen, item>>

----------------------------------------------------------------------------
(* singer helpers used by streams.py *)

Streams == {"search_tweets", "users"}

replication_key(stream) ==
    IF stream = "users" THEN "updated_at" ELSE "created_at"

get_bookmark(st, stream, default) ==
    IF st[stream] = NoDate THEN default ELSE st[stream]

write_bookmark(st, stream, value) == [st EXCEPT ![stream] = value]

\* mutant: the date-time field is read without its UTC offset
transform_naive(record, key) ==
    [record EXCEPT ![key] = strftime(@[1])]

\* Transformer.transform renders a date-time field as a UTC string
transform(record, key) ==
    [record EXCEPT ![key] = strftime(strptime_to_utc(@))]

RecordMessage(stream, record) ==
    [type |-> "RECORD", stream |-> stream, record |-> record]
StateMessage(st) == [type |-> "STATE", value |-> st]

----------------------------------------------------------------------------
(* Generator frames *)

NoGen == [status |-> "none", self |-> 0, is_parent |-> FALSE,
          start_time |-> NoDate, qi |-> 0, next_token |-> NoToken,
          buf |-> <<>>, batch |-> <<>>]
NewGen(self, is_parent) ==
    [NoGen EXCEPT !.status = "new", !.self = self, !.is_parent = is_parent]

NoUsersGen == [status |-> "none", buf |-> <<>>]

NoRet == [none |-> TRUE, body |-> NoResp]

NoState == [s \in Streams |-> NoDate]

NoHist == [n |-> 0, stream |-> "", outcome |-> "none", before |-> NoState,
           requests |-> <<>>, pages |-> <<>>, lookups |-> <<>>,
           found |-> <<>>,
           yielded |-> <<>>, emitted |-> <<>>,
           hit |-> FALSE, attempts |-> 0,
           track |-> FALSE, prev_key |-> NoDate, prev_yielded |-> <<>>,
           prev_stream |-> "", prev_outcome |-> "none"]

\* the SearchTweets object the sync entry point syncs; a Users sync makes a
\* fresh parent object (get_parent_data), numbered by the sync that made it
TheSearchTweets == 0

\* functools.lru_cache around SearchTweets.get_records: the key is the
\* argument tuple (self, start_date, config, is_parent), which is hashed
lru_cache_call(self, start_date, is_parent) ==
    LET key == <<self, start_date, is_parent>>
    IN  IF ~config.hashable
        THEN [kind |-> "raise", hit |-> FALSE, cache |-> cache,
              exc |-> Exc("TypeError", "unhashable type: 'dict'")]
        ELSE IF key \in cache
        THEN [kind |-> "return", hit |-> TRUE, cache |-> cache, exc |-> NoExc]
        ELSE [kind |-> "return", hit |-> FALSE,
              cache |-> cache \cup {key}, exc |-> NoExc]

get_tweet_fields == "created_at,author_id"
get_user_fields == "created_at"

----------------------------------------------------------------------------
(* IncrementalStream.sync, lines 85-90: read the bookmark and call the     *)
(* record source.                                                          *)

\* mutant: the running maximum starts at the configured start date's
\* predecessor instead of the bookmark
sync_begin_low(st, stream) ==
    LET start_date == get_bookmark(st, stream, config.start_date)
        bookmark_datetime == strptime_to_utc(start_date)
    IN  [stream |-> stream, start_date |-> start_date,
         bookmark_datetime |-> bookmark_datetime,
         max_datetime |-> strptime_to_utc(config.start_date) - 1]

\* lines 85-87: the locals of sync before the loop
sync_begin(st, stream) ==
    LET start_date == get_bookmark(st, stream, config.start_date)
        bookmark_datetime == strptime_to_utc(start_date)
    IN  [stream |-> stream, start_date |-> start_date,
         bookmark_datetime |-> bookmark_datetime,
         max_datetime |-> bookmark_datetime]

Sync(stream) ==
    /\ pc = "idle"
    /\ hist.n < MaxSyncs
    /\ LET start_date == sync_begin(state, stream).start_date
           call == lru_cache_call(TheSearchTweets, start_date, FALSE)
           h == [NoHist EXCEPT !.n = hist.n + 1, !.stream = stream,
                               !.before = state,
                               !.prev_key = IF hist.stream = "search_tweets"
                                            THEN sync.start_date ELSE NoDate,
                               !.track = hist.track,
                               !.prev_yielded =
                                   IF hist.track THEN hist.yielded ELSE <<>>,
                               !.prev_stream =
                                   IF hist.track THEN hist.stream ELSE "",
                               !.prev_outcome =
                                   IF hist.track THEN hist.outcome ELSE "none"]
       IN  /\ sync' = sync_begin(state, stream)
           /\ IF stream = "users"
              THEN /\ ugen' = [status |-> "new", buf |-> <<>>]
                   /\ gen' = NoGen
                   /\ pc' = "iter"
                   /\ exc' = NoExc
                   /\ hist' = h
                   /\ UNCHANGED cache
              ELSE /\ ugen' = NoUsersGen
                   /\ cache' = call.cache
                   /\ exc' = call.exc
                   /\ hist' = [h EXCEPT !.hit = call.hit]
                   /\ IF call.kind = "raise"
                      THEN pc' = "raised" /\ gen' = NoGen
                      ELSE /\ pc' = "iter"
                           /\ gen' = IF call.hit
                                     THEN [NoGen EXCEPT !.status = "done"]
                                     ELSE NewGen(TheSearchTweets, FALSE)
    /\ http' = NoCall /\ last' = NoResp /\ ret' = NoRet /\ item' = <<>>
    /\ UNCHANGED <<config, now, state>>

----------------------------------------------------------------------------
(* IncrementalStream.sync, line 90: the for loop asks its record source    *)
(* for the next record.  A generator suspended inside `yield from` hands   *)
(* out the next element; otherwise the generator body runs on.             *)

Yield(record) ==
    /\ item' = record
    /\ pc' = "record"
    /\ hist' = [hist EXCEPT !.yielded = Append(@, record)]

Iterate ==
    /\ pc = "iter"
    /\ IF sync.stream = "users"
       THEN IF ugen.status = "new"
            \* Users.get_records lines 218-220: get_parent_data calls the
            \* parent's cached get_records on a fresh SearchTweets object
            THEN LET call == lru_cache_call(hist.n, sync.start_date, TRUE)
                 IN  /\ cache' = call.cache
                     /\ exc' = call.exc
                     /\ IF call.kind = "raise"
                        THEN /\ pc' = "raised"
                             /\ ugen' = [ugen EXCEPT !.status = "done"]
                             /\ gen' = gen
                        ELSE /\ pc' = "search"
                             /\ ugen' = [ugen EXCEPT !.status = "live"]
                             /\ gen' = NewGen(hist.n, TRUE)
                     /\ UNCHANGED <<item, hist>>
            ELSE IF ugen.buf # <<>>
            THEN /\ Yield(Head(ugen.buf))
                 /\ ugen' = [ugen EXCEPT !.buf = Tail(@)]
                 /\ UNCHANGED <<cache, exc, gen>>
            ELSE /\ pc' = "search"
                 /\ UNCHANGED <<cache, exc, gen, ugen, item, hist>>
       ELSE IF gen.status = "done"
            THEN /\ pc' = "finish"
                 /\ UNCHANGED <<cache, exc, gen, ugen, item, hist>>
            ELSE IF gen.buf # <<>>
            THEN /\ Yield(Head(gen.buf))
                 /\ gen' = [gen EXCEPT !.buf = Tail(@)]
                 /\ UNCHANGED <<cache, exc, ugen>>
            ELSE /\ pc' = "search"
                 /\ UNCHANGED <<cache, exc, gen, ugen, item, hist>>
    /\ UNCHANGED <<config, now, state, sync, http, last, ret>>

----------------------------------------------------------------------------
(* SearchTweets.get_records, lines 151-175: from the point where the       *)
(* generator runs on to its next request, or to its end.                   *)

\* mutant: the token of the previous response is not passed on
SearchParams_first_page(query, start_time, next_token) ==
    [query |-> query, tweet_fields |-> get_tweet_fields,
     start_time |-> start_time, next_token |-> NoToken, max_results |-> 100]

\* lines 167-173
SearchParams(query, start_time, next_token) ==
    [query |-> query, tweet_fields |-> get_tweet_fields,
     start_time |-> start_time, next_token |-> next_token, max_results |-> 100]

Request(g) ==
    /\ gen' = g
    /\ pc' = "http"
    /\ http' = get_recent_tweets
    /\ hist' = [hist EXCEPT !.requests = Append(@,
                    SearchParams(config.tweet_search_query[g.qi],
                                 g.start_time, g.next_token))]
    /\ exc' = NoExc

StopIteration ==
    /\ gen' = [gen EXCEPT !.status = "done"]
    /\ ugen' = [ugen EXCEPT !.status = IF @ = "none" THEN @ ELSE "done"]
    /\ pc' = "finish"
    /\ exc' = NoExc
    /\ UNCHANGED <<http, hist>>

GenRaise(e) ==
    /\ gen' = [gen EXCEPT !.status = "done"]
    /\ ugen' = [ugen EXCEPT !.status = IF @ = "none" THEN @ ELSE "done"]
    /\ pc' = "raised"
    /\ exc' = e

SearchLoop ==
    /\ pc = "search"
    /\ IF gen.status = "new"
       THEN LET start_date == get_bookmark_or_max_date(sync.start_date, now)
                start_time == date_to_rfc3339(start_date)
                queries == config.tweet_search_query
            IN  IF ~config.is_list
                THEN /\ GenRaise(Exc("TypeError",
                             "exceptions must derive from BaseException"))
                     /\ UNCHANGED <<http, hist>>
                ELSE IF queries = <<>>
                THEN StopIteration
                ELSE /\ Request([gen EXCEPT !.status = "live", !.qi = 1,
                                            !.start_time = start_time,
                                            !.next_token = NoToken])
                     /\ UNCHANGED ugen
       ELSE IF gen.next_token # NoToken
       THEN Request(gen) /\ UNCHANGED ugen
       ELSE IF gen.qi < Len(config.tweet_search_query)
       THEN /\ Request([gen EXCEPT !.qi = @ + 1, !.next_token = NoToken])
            /\ UNCHANGED ugen
       ELSE StopIteration
    /\ UNCHANGED <<config, now, state, cache, sync, last, ret, item>>

----------------------------------------------------------------------------
(* SearchTweets.get_records, lines 175-193: the client returned.           *)

Falsy(kind, list) == kind # "list" \/ list = <<>>

\* mutant: only an absent `data` counts as "no data"
response_failed_absent_only(response) ==
    response.data_kind # "list" /\ ~Falsy(response.errors_kind, response.errors)

\* line 184: `not data and response.get('errors')`
response_failed(response) ==
    Falsy(response.data_kind, response.data)
        /\ ~Falsy(response.errors_kind, response.errors)

error_message(errors) == errors[1].title \o ": " \o errors[1].detail

author_ids(data) == [i \in 1..Len(data) |-> data[i].author_id]

SearchPage ==
    /\ pc = "returned"
    /\ http.caller = "search"
    /\ LET response == ret.body
           next_token == response.next_token
           data == response.data
           g == [gen EXCEPT !.next_token = next_token]
           h == [hist EXCEPT !.pages = Append(@, [qi |-> gen.qi, resp |-> response])]
       IN  IF ret.none
           THEN /\ GenRaise(Exc("AttributeError",
                        "'NoneType' object has no attribute 'get'"))
                /\ UNCHANGED <<hist, item>>
           ELSE IF response_failed(response)
           THEN /\ GenRaise(Exc("TwitterClientError",
                                error_message(response.errors)))
                /\ hist' = h
                /\ item' = item
           ELSE IF response.data_kind # "list"
           THEN /\ GenRaise(Exc("TypeError", "'NoneType' object is not iterable"))
                /\ hist' = h
                /\ item' = item
           ELSE IF gen.is_parent
           THEN /\ gen' = [g EXCEPT !.batch = author_ids(data)]
                /\ pc' = "batch"
                /\ hist' = h
                /\ UNCHANGED <<ugen, exc, item>>
           ELSE IF data = <<>>
           THEN /\ gen' = g
                /\ pc' = "search"
                /\ hist' = h
                /\ UNCHANGED <<ugen, exc, item>>
           ELSE /\ gen' = [g EXCEPT !.buf = Tail(data)]
                /\ item' = Head(data)
                /\ pc' = "record"
                /\ hist' = [h EXCEPT !.yielded = Append(@, Head(data))]
                /\ UNCHANGED <<ugen, exc>>
    /\ http' = NoCall
    /\ ret' = NoRet
    /\ UNCHANGED <<config, now, state, cache, sync, last>>

----------------------------------------------------------------------------
(* Users.get_records, lines 221-227: one lookup per batch of author ids    *)

RECURSIVE Join(_)
Join(ids) ==
    IF ids = <<>> THEN ""
    ELSE IF Len(ids) = 1 THEN ids[1]
    ELSE ids[1] \o "," \o Join(Tail(ids))

UsersLookup ==
    /\ pc = "batch"
    /\ LET author_ids_param == Join(gen.batch)
           params == [ids |-> author_ids_param, user_fields |-> get_user_fields]
       IN  hist' = [hist EXCEPT !.lookups = Append(@, params)]
    /\ gen' = [gen EXCEPT !.batch = <<>>]
    /\ pc' = "http"
    /\ http' = get_users
    /\ UNCHANGED <<config, now, state, cache, sync, ugen, last, ret, item, exc>>

(* Users.get_records, lines 229-231 *)

\* line 231: {'updated_at': start_date, **author}; a member of the user
\* object replaces the literal of the same name
UserRecord(start_date, author) ==
    [updated_at |-> IF author.updated_at = NoDate THEN start_date
                    ELSE author.updated_at,
     id |-> author.id, name |-> author.name]

UsersPage ==
    /\ pc = "returned"
    /\ http.caller = "users"
    /\ LET response == ret.body
           data == response.data
           records == [i \in 1..Len(data) |-> UserRecord(sync.start_date, data[i])]
           h == [hist EXCEPT !.found = Append(@, response)]
       IN  IF ret.none
           THEN /\ GenRaise(Exc("AttributeError",
                        "'NoneType' object has no attribute 'get'"))
                /\ UNCHANGED <<hist, item>>
           ELSE IF response.data_kind # "list"
           THEN /\ GenRaise(Exc("TypeError", "'NoneType' object is not iterable"))
                /\ hist' = h
                /\ item' = item
           ELSE IF data = <<>>
           THEN /\ pc' = "search"
                /\ hist' = h
                /\ UNCHANGED <<gen, ugen, exc, item>>
           ELSE /\ ugen' = [ugen EXCEPT !.buf = Tail(records)]
                /\ item' = Head(records)
                /\ pc' = "record"
                /\ hist' = [h EXCEPT !.yielded = Append(@, Head(records))]
                /\ UNCHANGED <<gen, exc>>
    /\ http' = NoCall
    /\ ret' = NoRet
    /\ UNCHANGED <<config, now, state, cache, sync, last>>

----------------------------------------------------------------------------
(* IncrementalStream.sync, lines 91-96: one record of the source           *)

\* mutant: a strict comparison with the bookmark
emit_record_strict(record_datetime, bookmark_datetime, stream) ==
    record_datetime > bookmark_datetime \/ stream = "users"

\* mutant: the bookmark filters the records of every stream
emit_record_filtered(record_datetime, bookmark_datetime, stream) ==
    record_datetime >= bookmark_datetime

\* line 93
emit_record(record_datetime, bookmark_datetime, stream) ==
    record_datetime >= bookmark_datetime \/ stream = "users"

SyncRecord ==
    /\ pc = "record"
    /\ LET key == replication_key(sync.stream)
           transformed_record == transform(item, key)
           record_datetime == strptime_to_utc(transformed_record[key])
       IN  IF emit_record(record_datetime, sync.bookmark_datetime, sync.stream)
           THEN /\ hist' = [hist EXCEPT !.emitted =
                        Append(@, RecordMessage(sync.stream, transformed_record))]
                /\ sync' = [sync EXCEPT !.max_datetime = Max(record_datetime, @)]
           ELSE UNCHANGED <<hist, sync>>
    /\ pc' = "iter"
    /\ UNCHANGED <<config, now, state, cache, gen, ugen, http, last, ret, item, exc>>

(* IncrementalStream.sync, lines 98-102: the source is exhausted *)

\* mutant: the bookmark is moved one second past the maximum
SyncFinish_past_maximum ==
    /\ pc = "finish"
    /\ LET bookmark_date == strftime(sync.max_datetime + 1)
           new_state == write_bookmark(state, sync.stream, bookmark_date)
       IN  /\ state' = new_state
           /\ hist' = [hist EXCEPT !.emitted = Append(@, StateMessage(new_state)),
                                   !.outcome = "completed"]
    /\ pc' = "idle"
    /\ UNCHANGED <<config, now, cache, sync, gen, ugen, http, last, ret, item, exc>>

SyncFinish ==
    /\ pc = "finish"
    /\ LET bookmark_date == strftime(sync.max_datetime)
           new_state == write_bookmark(state, sync.stream, bookmark_date)
       IN  /\ state' = new_state
           /\ hist' = [hist EXCEPT !.emitted = Append(@, StateMessage(new_state)),
                                   !.outcome = "completed"]
    /\ pc' = "idle"
    /\ UNCHANGED <<config, now, cache, sync, gen, ugen, http, last, ret, item, exc>>

\* mutant: the bookmark is written in a `finally`, also when sync aborts
SyncAbort_finally ==
    /\ pc = "raised"
    /\ http.caller # "client"
    /\ pc' = "idle"
    /\ LET new_state == write_bookmark(state, sync.stream,
                                       strftime(sync.max_datetime))
       IN  /\ state' = new_state
           /\ hist' = [hist EXCEPT !.outcome = "aborted",
                                   !.emitted = Append(@, StateMessage(new_state))]
    /\ http' = NoCall
    /\ UNCHANGED <<config, now, cache, sync, gen, ugen, last, ret, item, exc>>

(* an exception leaves IncrementalStream.sync: nothing after line 90 runs *)

SyncAbort ==
    /\ pc = "raised"
    /\ http.caller # "client"
    /\ pc' = "idle"
    /\ hist' = [hist EXCEPT !.outcome = "aborted"]
    /\ http' = NoCall
    /\ UNCHANGED <<config, now, state, cache, sync, gen, ugen, last, ret, item, exc>>

----------------------------------------------------------------------------
(* A client call made on its own (Client.get_recent_tweets -> get -> _get  *)
(* -> _make_request), used by the client-only specification.               *)

ClientCall ==
    /\ pc \in {"returned", "raised"}
    /\ http.caller = "client"
    /\ hist.n < MaxCalls
    /\ pc' = "http"
    /\ http' = Call("client")
    /\ hist' = [hist EXCEPT !.n = @ + 1, !.attempts = 0]
    /\ last' = NoResp /\ ret' = NoRet /\ exc' = NoExc
    /\ UNCHANGED <<config, now, state, cache, sync, gen, ugen, item>>

----------------------------------------------------------------------------
(* Initial states and specifications *)

Queries == {<<>>, <<"q1">>, <<"q1", "q2">>}

Configs ==
    {[start_date |-> <<T0 + Hour, Hour>>, tweet_search_query |-> q,
      is_list |-> TRUE, hashable |-> h] : q \in Queries, h \in BOOLEAN}
    \cup {[start_date |-> <<T0 + Hour, Hour>>, tweet_search_query |-> <<>>,
           is_list |-> FALSE, hashable |-> TRUE]}

\* the lookback floor falls between the bookmarks: T0 is clamped, T0 + 1 is not
Nows == {[utc |-> T0 + 1 + lookback_days * SecondsPerDay, tz |-> 0]}

Bookmarks == {NoDate, <<T0, 0>>}

NoSync == [stream |-> "", start_date |-> NoDate, bookmark_datetime |-> 0,
           max_datetime |-> 0]

InitCommon ==
    /\ config \in Configs
    /\ now \in Nows
    /\ cache = {}
    /\ sync = NoSync
    /\ gen = NoGen
    /\ ugen = NoUsersGen
    /\ last = NoResp
    /\ ret = NoRet
    /\ item = <<>>
    /\ exc = NoExc
    /\ hist = NoHist

Init ==
    /\ InitCommon
    /\ state \in {[s \in Streams |-> b] : b \in Bookmarks}
    /\ pc = "idle"
    /\ http = NoCall

HasUsableMessage(r) ==
    r.json /\ r.errors_kind = "list" /\ r.errors # <<>> /\ r.errors[1].message # ""

\* the responses the server may give to the request in progress: a page, a
\* status below 400, a typed failure, an unparseable failure, a rate limit;
\* a lookup finds users exactly when it names some
SyncFailResponses ==
    {r \in FailResponses :
        \/ r.status \in {201, 404, 429} /\ HasUsableMessage(r)
        \/ r.status = 404 /\ ~r.json}

Offered ==
    IF http.caller = "search"
    THEN {r \in SearchResponses \cup SyncFailResponses :
            r.next_token = NoToken \/ Len(hist.requests) <= MaxPages}
    ELSE IF http.caller = "users"
    THEN LET no_ids == hist.lookups[Len(hist.lookups)].ids = ""
         IN  {r \in UserResponses :
                 r.data_kind = "absent" \/ (r.data = <<>> <=> no_ids)}
             \cup SyncFailResponses
    ELSE {}

Next ==
    \/ \E stream \in Streams : Sync(stream)
    \/ Iterate
    \/ SearchLoop
    \/ \E resp \in Offered : MakeRequest(resp)
    \/ SearchPage
    \/ UsersLookup
    \/ UsersPage
    \/ SyncRecord
    \/ SyncFinish
    \/ SyncAbort

Spec == Init /\ [][Next]_vars

InitClient ==
    /\ InitCommon
    /\ state = NoState
    /\ pc = "http"
    /\ http = Call("client")

NextClient ==
    \/ \E resp \in FailResponses \cup SearchResponses : MakeRequest(resp)
    \/ ClientCall

SpecClient == InitClient /\ [][NextClient]_vars

\* syncs of the search stream alone, remembering what the previous
\* consumer of get_records received
InitMemo ==
    /\ config \in Configs
    /\ now \in Nows
    /\ cache = {}
    /\ sync = NoSync
    /\ gen = NoGen
    /\ ugen = NoUsersGen
    /\ last = NoResp
    /\ ret = NoRet
    /\ item = <<>>
    /\ exc = NoExc
    /\ hist = [NoHist EXCEPT !.track = TRUE]
    /\ state \in [Streams -> Bookmarks]
    /\ pc = "idle"
    /\ http = NoCall

NextMemo ==
    \/ Sync("search_tweets")
    \/ Iterate
    \/ SearchLoop
    \/ \E resp \in Offered : MakeRequest(resp)
    \/ SearchPage
    \/ SyncRecord
    \/ SyncFinish
    \/ SyncAbort

SpecMemo == InitMemo /\ [][NextMemo]_vars

\* get_bookmark_or_max_date on its own: dates on both sides of the lookback
\* floor, written with and without a UTC offset, on hosts whose local time
\* is behind, at and ahead of UTC
Floor == T0

ClampDates ==
    {<<Floor + dx + o, o>> :
        dx \in {-Hour - 1, -Hour, -1, 0, 1, Hour - 1, Hour}, o \in {0, Hour}}

ClampNows ==
    {[utc |-> Floor + dn + lookback_days * SecondsPerDay, tz |-> z] :
        dn \in {0, 1}, z \in {-Hour, 0, Hour}}

InitClamp ==
    /\ config \in {[start_date |-> d, tweet_search_query |-> <<>>,
                     is_list |-> TRUE, hashable |-> TRUE] : d \in ClampDates}
    /\ now \in ClampNows
    /\ cache = {}
    /\ sync = NoSync
    /\ gen = NoGen
    /\ ugen = NoUsersGen
    /\ last = NoResp
    /\ ret = NoRet
    /\ item = <<>>
    /\ exc = NoExc
    /\ hist = NoHist
    /\ state = NoState
    /\ pc = "clamp"
    /\ http = NoCall

GetBookmarkOrMaxDate ==
    /\ pc = "clamp"
    /\ ret' = [none |-> FALSE,
               body |-> get_bookmark_or_max_date(config.start_date, now)]
    /\ pc' = "clamped"
    /\ UNCHANGED <<config, now, state, cache, sync, gen, ugen, http, last,
                   item, exc, hist>>

SpecClamp == InitClamp /\ [][GetBookmarkOrMaxDate]_vars

\* syncs of the users stream alone; the lookup may also return user objects
\* that carry an `updated_at` member
StampedUserResponses ==
    {Resp(200, TRUE, "list", d, NoToken, "absent", <<>>) : d \in StampedUserPages}

OfferedUsers ==
    {r \in Offered : r.status \in {200, 404} /\ r.json}
        \cup (IF http.caller = "users" /\ hist.lookups[Len(hist.lookups)].ids # ""
              THEN StampedUserResponses ELSE {})

NextUsers ==
    \/ Sync("users")
    \/ Iterate
    \/ SearchLoop
    \/ \E resp \in OfferedUsers : MakeRequest(resp)
    \/ SearchPage
    \/ UsersLookup
    \/ UsersPage
    \/ SyncRecord
    \/ SyncFinish
    \/ SyncAbort

SpecUsers == Init /\ [][NextUsers]_vars

\* a sync and its replay, of either stream, with one query and a server
\* that answers every request with a page; what the previous sync received
\* is remembered
InitReplay ==
    /\ config \in {c \in Configs :
                       c.hashable /\ c.is_list /\ Len(c.tweet_search_query) = 1}
    /\ now \in Nows
    /\ cache = {}
    /\ sync = NoSync
    /\ gen = NoGen
    /\ ugen = NoUsersGen
    /\ last = NoResp
    /\ ret = NoRet
    /\ item = <<>>
    /\ exc = NoExc
    /\ hist = [NoHist EXCEPT !.track = TRUE]
    /\ state \in {[s \in Streams |-> b] : b \in Bookmarks}
    /\ pc = "idle"
    /\ http = NoCall

OfferedReplay ==
    {r \in OfferedUsers :
        r.status = 200 /\ r.data_kind = "list" /\ r.errors_kind = "absent"}

NextReplay ==
    \/ \E stream \in Streams : Sync(stream)
    \/ Iterate
    \/ SearchLoop
    \/ \E resp \in OfferedReplay : MakeRequest(resp)
    \/ SearchPage
    \/ UsersLookup
    \/ UsersPage
    \/ SyncRecord
    \/ SyncFinish

SpecReplay == InitReplay /\ [][NextReplay]_vars

----------------------------------------------------------------------------
(* Observations used by the properties *)

IsRecordMessage(m) == m.type = "RECORD"
IsStateMessage(m) == m.type = "STATE"

EmittedRecords ==
    LET sel == SelectSeq(hist.emitted, IsRecordMessage)
    IN  [i \in 1..Len(sel) |-> sel[i].record]

StateWrites == SelectSeq(hist.emitted, IsStateMessage)

Ids(records) == [i \in 1..Len(records) |-> records[i].id]

\* the records of the source the loop body has already handled
Processed ==
    IF pc = "record" THEN SubSeq(hist.yielded, 1, Len(hist.yielded) - 1)
    ELSE hist.yielded

InSync(stream) == hist.stream = stream /\ sync.stream = stream

\* the watermark read at the beginning of the current sync, as an instant
StartingWatermark ==
    IF hist.before[hist.stream] = NoDate
    THEN config.start_date[1] - config.start_date[2]
    ELSE hist.before[hist.stream][1] - hist.before[hist.stream][2]

CreatedAt(record) == record.created_at[1] - record.created_at[2]

AtOrAboveWatermark(record) == CreatedAt(record) >= StartingWatermark

RECURSIVE MaxOf(_, _)
MaxOf(floor, instants) ==
    IF instants = <<>> THEN floor
    ELSE LET rest == MaxOf(floor, Tail(instants))
         IN  IF Head(instants) > rest THEN Head(instants) ELSE rest

----------------------------------------------------------------------------
\* C1: in a sync of a stream other than `users`, the records written to the
\* record sink are exactly the records of the source whose replication-key
\* instant is at or above the watermark read at the start of the sync, in
\* order; none below the watermark is written.
C1_EmitIffAtOrAboveWatermark ==
    InSync("search_tweets") =>
        /\ Ids(EmittedRecords) = Ids(SelectSeq(Processed, AtOrAboveWatermark))
        /\ \A i \in 1..Len(EmittedRecords) :
               CreatedAt(EmittedRecords[i]) >= StartingWatermark

\* a finished sync whose source yielded a record below the watermark, one
\* equal to it and one above it
C1_Witness ==
    /\ InSync("search_tweets")
    /\ hist.outcome = "completed"
    /\ \E i \in 1..Len(hist.yielded) : CreatedAt(hist.yielded[i]) < StartingWatermark
    /\ \E i \in 1..Len(hist.yielded) : CreatedAt(hist.yielded[i]) = StartingWatermark
    /\ \E i \in 1..Len(hist.yielded) : CreatedAt(hist.yielded[i]) > StartingWatermark
    /\ Len(EmittedRecords) >= 2

\* C2: the watermark stored for a stream never moves back in time, whatever
\* step is taken (syncs that complete, syncs that abort, any record source).
C2_WatermarkNeverDecreases ==
    [][\A s \in Streams :
          state[s] # NoDate =>
              /\ state'[s] # NoDate
              /\ state'[s][1] - state'[s][2] >= state[s][1] - state[s][2]]_vars

\* a second sync has completed and moved a stored watermark forward
C2_Witness ==
    /\ hist.n = 2
    /\ hist.outcome = "completed"
    /\ hist.before[hist.stream] # NoDate
    /\ state[hist.stream][1] - state[hist.stream][2]
           > hist.before[hist.stream][1] - hist.before[hist.stream][2]

\* C3: when a sync completes, the watermark it stored is the maximum of the
\* starting watermark and the replication-key instants of the records it
\* emitted, and the state sink was called exactly once, after the last
\* record; while the sync runs the state sink is not called.
C3_WatermarkIsMaxAndStateWrittenOnce ==
    /\ (hist.stream \in Streams /\ hist.outcome # "completed") => StateWrites = <<>>
    /\ (hist.stream \in Streams /\ hist.outcome = "completed") =>
        LET key == IF hist.stream = "users" THEN "updated_at" ELSE "created_at"
            instants == [i \in 1..Len(EmittedRecords) |->
                            EmittedRecords[i][key][1] - EmittedRecords[i][key][2]]
            expected == MaxOf(StartingWatermark, instants)
        IN  /\ state[hist.stream] = <<expected, 0>>
            /\ Len(StateWrites) = 1
            /\ hist.emitted[Len(hist.emitted)] = [type |-> "STATE", value |-> state]
            /\ \A s \in Streams \ {hist.stream} : state[s] = hist.before[s]

\* a completed sync that emitted a later record with a smaller
\* replication-key value than an earlier one, and advanced the watermark
C3_Witness ==
    /\ InSync("search_tweets")
    /\ hist.outcome = "completed"
    /\ \E i, j \in 1..Len(EmittedRecords) :
           i < j /\ CreatedAt(EmittedRecords[i]) > CreatedAt(EmittedRecords[j])
    /\ state[hist.stream][1] - state[hist.stream][2] > StartingWatermark

\* C4: a sync that a failure aborts leaves the Sync State as it was before
\* the sync and never calls the state sink.
C4_AbortLeavesStateUntouched ==
    (hist.stream \in Streams /\ (pc = "raised" \/ hist.outcome = "aborted")) =>
        /\ state = hist.before
        /\ StateWrites = <<>>

\* a sync aborted after it had emitted records, by each kind of failure: an
\* HTTP failure, exhausted 429 retries, an error inside a 200 response
C4_Witness ==
    /\ hist.outcome = "aborted"
    /\ EmittedRecords # <<>>
    /\ \/ exc.exc = "TwitterClient404Error"
       \/ exc.exc = "TwitterClient429Error"
       \/ exc = [exc |-> "TwitterClientError", message |-> "X: Y"]

----------------------------------------------------------------------------
(* The search stream *)

RECURSIVE FlattenData(_)
FlattenData(pages) ==
    IF pages = <<>> THEN <<>>
    ELSE pages[1].resp.data \o FlattenData(Tail(pages))

\* the pages were traversed query by query, each query up to its first page
\* without a next_token, and the last page ends the last query
Traversal(pages, queries) ==
    IF queries = <<>> THEN pages = <<>>
    ELSE /\ pages # <<>>
         /\ pages[1].qi = 1
         /\ \A i \in 1..(Len(pages) - 1) :
                IF pages[i].resp.next_token # NoToken
                THEN pages[i + 1].qi = pages[i].qi
                ELSE pages[i + 1].qi = pages[i].qi + 1
         /\ pages[Len(pages)].resp.next_token = NoToken
         /\ pages[Len(pages)].qi = Len(queries)

\* every response the server gave was a 200 page without an errors member
ServedPagesOnly ==
    /\ last.status \in {0, 200}
    /\ \A i \in 1..Len(hist.pages) :
           hist.pages[i].resp.errors_kind = "absent"

SyncEnded == pc = "idle" /\ hist.outcome # "none"

\* C5: when the server answers every request with a page, get_records (not
\* in parent mode) over a non-empty list of queries yields every record of
\* every page in traversal order, query after query, and terminates after
\* the last query.
C5_YieldsEveryPageInOrder ==
    (/\ InSync("search_tweets")
     /\ config.is_list
     /\ config.tweet_search_query # <<>>
     /\ SyncEnded
     /\ ServedPagesOnly) =>
        /\ hist.outcome = "completed"
        /\ Traversal(hist.pages, config.tweet_search_query)
        /\ hist.yielded = FlattenData(hist.pages)

IsErrorPage(resp) ==
    /\ resp.data_kind = "absent" \/ resp.data = <<>>
    /\ resp.errors_kind = "list"
    /\ resp.errors # <<>>

\* C6: a search response with empty or absent data and a non-empty errors
\* array makes get_records raise TwitterClientError with the first error's
\* title and detail; nothing is yielded from it and no request follows it.
C6_ErrorPageIsFatal ==
    \A i \in 1..Len(hist.pages) :
        IsErrorPage(hist.pages[i].resp) =>
            LET first == hist.pages[i].resp.errors[1]
            IN  /\ i = Len(hist.pages)
                /\ Len(hist.requests) = i
                /\ Len(hist.lookups) = IF hist.stream = "users" THEN i - 1 ELSE 0
                /\ pc \in {"raised", "idle"}
                /\ hist.outcome # "completed"
                /\ exc.exc = "TwitterClientError"
                /\ exc.message = first.title \o ": " \o first.detail
                /\ hist.stream = "search_tweets" =>
                       hist.yielded = FlattenData(SubSeq(hist.pages, 1, i - 1))

\* an error page with an empty data list arrived after a page of records,
\* with a later query still to run, and the sync was aborted
C6_Witness ==
    /\ hist.outcome = "aborted"
    /\ Len(hist.pages) >= 2
    /\ IsErrorPage(hist.pages[Len(hist.pages)].resp)
    /\ hist.pages[Len(hist.pages)].resp.data_kind = "list"
    /\ hist.pages[Len(hist.pages)].qi < Len(config.tweet_search_query)
    /\ hist.yielded # <<>>

\* C10: a second invocation of get_records with the arguments of an earlier
\* one performs no search request, and its consumer receives the sequence
\* of records the first consumer received.
C10_SecondConsumerReplays ==
    (/\ InSync("search_tweets")
     /\ hist.prev_key # NoDate
     /\ hist.prev_key = sync.start_date
     /\ SyncEnded) =>
        /\ hist.requests = <<>>
        /\ hist.yielded = hist.prev_yielded

----------------------------------------------------------------------------
(* The client *)

CallEnded == http.caller = "client" /\ pc \in {"returned", "raised"}

\* C7: a 429 is retried until the tenth attempt, so a call never ends on a
\* 429 before its tenth attempt and then raises TwitterClient429Error; a
\* call whose latest response is a 200 returns that body.
C7_RetriesRateLimit ==
    CallEnded =>
        /\ last.status = 200 =>
               /\ pc = "returned"
               /\ ret = [none |-> FALSE, body |-> last]
               /\ hist.attempts <= 10
        /\ last.status = 429 =>
               /\ pc = "raised"
               /\ hist.attempts = 10
               /\ exc.exc = "TwitterClient429Error"

IsErrorStatus(status) == status >= 400 /\ status < 600

\* C8: a failure response other than 429 ends the call at once with an
\* exception: the attempt that received it is the last one, also after
\* retried 429s.
C8_OtherFailuresAreNotRetried ==
    (http.caller = "client" /\ IsErrorStatus(last.status) /\ last.status # 429) =>
        /\ pc = "raised"
        /\ exc # NoExc
        /\ http.tries = 0
        /\ hist.attempts >= 1

\* a 404 raised at the third attempt, after two retried 429s
C8_Witness ==
    /\ CallEnded
    /\ last.status = 404
    /\ hist.attempts = 3
    /\ exc.exc = "TwitterClient404Error"

TypedFailure(status) ==
    CASE status = 400 -> "TwitterClient400Error"
      [] status = 401 -> "TwitterClient401Error"
      [] status = 403 -> "TwitterClient403Error"
      [] status = 404 -> "TwitterClient404Error"
      [] status = 429 -> "TwitterClient429Error"
      [] status \in {500, 503} -> "TwitterClient5xxError"
      [] OTHER -> "TwitterClientError"

FixedPhrase(status) ==
    CASE status = 400 -> "Bad Request"
      [] status = 401 -> "Unauthorized"
      [] status = 403 -> "Forbidden"
      [] status = 404 -> "Not Found"
      [] status = 429 -> "API limit has been reached"
      [] status = 500 -> "Internal Server Error"
      [] status = 503 -> "Service Unavailable"
      [] OTHER -> "Client Error"

HasMessage(resp) ==
    /\ resp.json
    /\ resp.errors_kind = "list"
    /\ resp.errors # <<>>
    /\ resp.errors[1].message # ""

\* C9: every non-200 response makes the call raise a failure of the
\* taxonomy: the type of its status (the generic TwitterClientError for an
\* unmapped status or an unparseable body), with errors[0].message as the
\* message when present and the fixed phrase of the status otherwise.
C9_TypedFailureForEveryNon200 ==
    (CallEnded /\ last.status \notin {0, 200}) =>
        /\ pc = "raised"
        /\ exc.exc = IF last.json THEN TypedFailure(last.status)
                     ELSE "TwitterClientError"
        /\ last.json =>
               exc.message = IF HasMessage(last) THEN last.errors[1].message
                             ELSE FixedPhrase(last.status)

\* the start_time of a get_records run: the bookmark, moved up to 30 s
\* after the lookback floor when it is older than the floor, in UTC
ClampedStartTime ==
    LET bookmark == sync.start_date[1] - sync.start_date[2]
        floor == now.utc - 7 * 24 * 60 * 60
    IN  <<IF bookmark < floor THEN floor + 30 ELSE bookmark, 0>>

QueryIndex(query) ==
    CHOOSE k \in 1..Len(config.tweet_search_query) :
        config.tweet_search_query[k] = query

\* C17: the first request of every query carries no next_token; every later
\* request of the query carries the next_token of the response just before
\* it; the query after a response without a token starts again without
\* one, so no token crosses queries; and every request has max_results 100
\* and the same clamped start_time.
C17_TokenChainsWithinQuery ==
    \A i \in 1..Len(hist.requests) :
        LET request == hist.requests[i]
        IN  /\ request.max_results = 100
            /\ request.start_time = ClampedStartTime
            /\ i = 1 =>
                   /\ request.next_token = NoToken
                   /\ QueryIndex(request.query) = 1
            /\ i > 1 =>
                   /\ Len(hist.pages) >= i - 1
                   /\ LET previous == hist.pages[i - 1].resp
                          before == hist.requests[i - 1]
                      IN  IF previous.next_token # NoToken
                          THEN /\ request.query = before.query
                               /\ request.next_token = previous.next_token
                          ELSE /\ QueryIndex(request.query)
                                      = QueryIndex(before.query) + 1
                               /\ request.next_token = NoToken

\* the first query took two pages and the second query has been requested
C17_Witness ==
    /\ Len(hist.requests) >= 3
    /\ hist.requests[2].next_token = "A"
    /\ hist.requests[2].query = "q1"
    /\ hist.requests[3].query = "q2"
    /\ hist.requests[3].next_token = NoToken

ZeroResults(resp) ==
    /\ resp.data_kind # "list" \/ resp.data = <<>>
    /\ ~(resp.errors_kind = "list" /\ resp.errors # <<>>)

\* C18: a search response with empty or absent data and no errors does not
\* make get_records fail, in plain and in parent mode: no record and no
\* author id is yielded for it, and get_records goes on with the token of
\* the response (the next page, or the next query when there is none).
C18_ZeroResultsPageIsSkipped ==
    [][(/\ pc = "returned"
        /\ http.caller = "search"
        /\ ~ret.none
        /\ ZeroResults(ret.body)) =>
           /\ pc' \in {"search", "batch"}
           /\ exc' = NoExc
           /\ hist'.yielded = hist.yielded
           /\ gen'.batch = <<>>
           /\ gen'.status = "live"
           /\ gen'.next_token = ret.body.next_token]_vars

\* every record the users source yielded carries the synthetic updated_at:
\* the start_date string that sync passed to get_records
SyntheticOnly ==
    \A i \in 1..Len(hist.yielded) : hist.yielded[i].updated_at = sync.start_date

\* C20: a completed sync of the `users` stream whose records carry the
\* synthetic updated_at (the start_date passed to get_records) does not
\* advance the watermark: the watermark it stores denotes the instant of
\* the watermark it started from, whatever records it emitted.
C20_UsersWatermarkStays ==
    (InSync("users") /\ hist.outcome = "completed" /\ SyntheticOnly) =>
        /\ state["users"] # NoDate
        /\ state["users"][1] - state["users"][2] = StartingWatermark

\* a completed users sync that started from the configured start date,
\* written with a UTC offset, emitted user records and stored the same
\* instant written in UTC
C20_Witness ==
    /\ InSync("users")
    /\ hist.outcome = "completed"
    /\ SyntheticOnly
    /\ Len(EmittedRecords) >= 2
    /\ hist.before["users"] = NoDate
    /\ state["users"] # config.start_date
    /\ state["users"][1] - state["users"][2] = StartingWatermark

----------------------------------------------------------------------------
(* Replay *)

\* the sync that just completed is a replay: the sync before it was of the
\* same stream, completed, and received the same records from its source
Replayed ==
    /\ hist.track
    /\ hist.stream \in Streams
    /\ hist.outcome = "completed"
    /\ hist.prev_stream = hist.stream
    /\ hist.prev_outcome = "completed"
    /\ hist.yielded = hist.prev_yielded

KeyInstant(record) ==
    LET value == IF hist.stream = "users" THEN record.updated_at
                 ELSE record.created_at
    IN  value[1] - value[2]

KeyAtOrAboveWatermark(record) == KeyInstant(record) >= StartingWatermark

\* C19 as stated: a replay of a completed sync over the same record source
\* leaves the watermark unchanged and emits exactly the records whose
\* replication-key value is at or above the watermark, none strictly below.
C19_ReplayEmitsOnlyAtOrAboveWatermark ==
    Replayed =>
        /\ state[hist.stream] = hist.before[hist.stream]
        /\ Ids(EmittedRecords) = Ids(SelectSeq(hist.yielded, KeyAtOrAboveWatermark))
        /\ \A i \in 1..Len(EmittedRecords) :
               KeyInstant(EmittedRecords[i]) >= StartingWatermark

\* C19 as amended: a replay leaves the watermark unchanged; for a stream
\* other than `users` it emits exactly the records at or above the
\* watermark, and for `users` it emits every record again, also those
\* strictly below the watermark.
C19_ReplayKeepsWatermark ==
    Replayed =>
        /\ state[hist.stream] = hist.before[hist.stream]
        /\ Ids(EmittedRecords) =
               IF hist.stream = "users" THEN Ids(hist.yielded)
               ELSE Ids(SelectSeq(hist.yielded, KeyAtOrAboveWatermark))
        /\ hist.stream # "users" =>
               \A i \in 1..Len(EmittedRecords) :
                   KeyInstant(EmittedRecords[i]) >= StartingWatermark

\* a replay of the search stream that received a record below the
\* watermark and emitted a record equal to it
C19_Witness ==
    /\ Replayed
    /\ hist.stream = "search_tweets"
    /\ \E i \in 1..Len(hist.yielded) :
           KeyInstant(hist.yielded[i]) < StartingWatermark
    /\ \E i \in 1..Len(EmittedRecords) :
           KeyInstant(EmittedRecords[i]) = StartingWatermark

----------------------------------------------------------------------------
(* The date helpers *)

\* C16: for every date d and every now, get_bookmark_or_max_date returns
\* (now - lookback_days) + 30 seconds when d is strictly earlier than
\* now - lookback_days and returns d unchanged otherwise; hence the instant
\* it returns is never earlier than now - lookback_days.
C16_ClampsToLookbackFloor ==
    pc = "clamped" =>
        LET d == config.start_date
            floor == now.utc - 7 * 24 * 60 * 60
            result == ret.body
        IN  /\ d[1] - d[2] < floor => result[1] - result[2] = floor + 30
            /\ d[1] - d[2] >= floor => result = d
            /\ result[1] - result[2] >= floor

\* every value retry_after_wait_gen yields before it ends, in order
RECURSIVE Drain(_)
Drain(g) ==
    LET step == wait_gen_next(g)
    IN  IF step.kind = "stop" THEN <<>>
        ELSE <<step.value>> \o Drain(step.gen)

\* C15: the wait before the k-th retry of a rate-limited request is 10*k:
\* the wait generator yields 10, 20, 30, ... and ends at 300, and a call,
\* which makes at most ten attempts, sleeps 10, 20, ... up to 90 at most,
\* once before every retry.
C15_WaitIsTenTimesRetry ==
    /\ Len(Drain(retry_after_wait_gen)) = 30
    /\ \A k \in 1..Len(Drain(retry_after_wait_gen)) :
           Drain(retry_after_wait_gen)[k] = 10 * k
    /\ http.caller = "client" =>
           /\ Len(http.waits) <= 9
           /\ \A k \in 1..Len(http.waits) : http.waits[k] = 10 * k
           /\ pc = "http" => Len(http.waits) = http.tries
           /\ CallEnded => Len(http.waits) = hist.attempts - 1

\* a call that was rate limited ten times: it slept nine times, 90 last
C15_Witness ==
    /\ CallEnded
    /\ last.status = 429
    /\ exc.exc = "TwitterClient429Error"
    /\ hist.attempts = 10
    /\ Len(http.waits) = 9
    /\ http.waits[9] = 90

\* C14: when the configured tweet_search_query is not a list, a sync of the
\* search stream fails with TapConfigException and no API request is made.
C14_NotAListFailsWithConfigError ==
    (InSync("search_tweets") /\ ~config.is_list /\ SyncEnded) =>
        /\ hist.outcome = "aborted"
        /\ exc.exc = "TapConfigException"
        /\ hist.requests = <<>>

----------------------------------------------------------------------------
(* The users stream *)

UpdatedAt(record) == record.updated_at[1] - record.updated_at[2]

\* C11: in a sync of the `users` stream every record the record source
\* yielded is written to the record sink, in order, whatever its
\* replication-key value is, also when it is below the starting watermark.
C11_UsersEmitsEveryRecord ==
    InSync("users") =>
        EmittedRecords =
            [i \in 1..Len(Processed) |-> transform(Processed[i], "updated_at")]

\* a completed users sync that emitted a record whose updated_at is
\* strictly below the watermark the sync started from
C11_Witness ==
    /\ InSync("users")
    /\ hist.outcome = "completed"
    /\ \E i \in 1..Len(EmittedRecords) :
           UpdatedAt(EmittedRecords[i]) < StartingWatermark

\* every lookup the server answered was a 200 response with a list of users
LookupsServedOnly ==
    \A i \in 1..Len(hist.found) : hist.found[i].data_kind = "list"

\* the records Users.get_records is to yield for the lookup responses
RECURSIVE ExpectedUsers(_, _)
ExpectedUsers(found, start_date) ==
    IF found = <<>> THEN <<>>
    ELSE [i \in 1..Len(found[1].data) |->
             [updated_at |-> IF found[1].data[i].updated_at = NoDate
                             THEN start_date ELSE found[1].data[i].updated_at,
              id |-> found[1].data[i].id, name |-> found[1].data[i].name]]
         \o ExpectedUsers(Tail(found), start_date)

\* C12: when every parent page and every lookup succeeds, Users.get_records
\* completes without failure, having issued exactly one lookup per page of
\* the parent search with that page's author ids joined by commas, and
\* having yielded one record per returned user object, in order, each the
\* user object's fields with `updated_at` set to the unclamped start_date.
C12_OneLookupPerParentPage ==
    (/\ InSync("users")
     /\ config.is_list
     /\ config.tweet_search_query # <<>>
     /\ SyncEnded
     /\ ServedPagesOnly
     /\ LookupsServedOnly) =>
        /\ hist.outcome = "completed"
        /\ Len(hist.lookups) = Len(hist.pages)
        /\ Len(hist.found) = Len(hist.lookups)
        /\ \A i \in 1..Len(hist.lookups) :
               LET data == hist.pages[i].resp.data
               IN  hist.lookups[i] =
                       [ids |-> Join([j \in 1..Len(data) |-> data[j].author_id]),
                        user_fields |-> "created_at"]
        /\ hist.yielded = ExpectedUsers(hist.found, sync.start_date)

\* C13: in parent mode get_records yields one batch per response page, and
\* the batch is the set of distinct author_id values of the page's records:
\* an author of several tweets of the page appears once in the batch.
C13_ParentBatchIsDistinctAuthorIds ==
    pc = "batch" =>
        LET data == hist.pages[Len(hist.pages)].resp.data
        IN  /\ Len(hist.pages) = Len(hist.lookups) + 1
            /\ {gen.batch[i] : i \in 1..Len(gen.batch)}
                   = {data[i].author_id : i \in 1..Len(data)}
            /\ \A i, j \in 1..Len(gen.batch) :
                   i # j => gen.batch[i] # gen.batch[j]

====
